---- MODULE Spec2Model ----
(***************************************************************************)
(* Quiz-poll analytics pipeline: the vote-count reconciliation of          *)
(* get_cleaned.py and the metric derivation of quiz_dashboard3.py          *)
(* (load_data, calculate_insights) and quiz_dashboard.py                   *)
(* (calculate_insights).                                                   *)
(*                                                                         *)
(* Tables are sequences of records (a pandas DataFrame, row order kept).   *)
(* Texts (voter names, question texts, answer texts) are small naturals;   *)
(* their numeric order stands for the lexicographic order of the strings.  *)
(* A cell that may be missing (a timestamp, a latency) is a record         *)
(* [num, den, na]: the rational num/den, or NaN/NaT when na is TRUE.       *)
(* Timestamps count minutes from an origin.                                *)
(*                                                                         *)
(* The column conversions of get_cleaned.py (convert_date,                 *)
(* convert_vote_count) and the voting_time normalisation of                *)
(* get_questions.py (parse_custom_date) work on the text of the cells:     *)
(* there a string is the sequence of its characters and a timestamp is a   *)
(* calendar day number with the minute of the day.                         *)
(***************************************************************************)
EXTENDS Integers, Sequences, FiniteSets, TLC

VARIABLES
    pc,                  \* position of the running script
    cleaned_voter,       \* the ballots as read from the voter file
    que_ans_df,          \* Questions table (one row per question x answer option)
    voter_df,            \* Ballots table
    correct_answers_df,  \* CorrectAnswers table
    idx,                 \* get_cleaned.py: row the reconciliation loop is at
    n,                   \* the limit N handed to calculate_insights
    insights             \* the metrics returned by calculate_insights

vars == <<pc, cleaned_voter, que_ans_df, voter_df, correct_answers_df, idx, n, insights>>

----------------------------------------------------------------------------
(* Bounds of the model                                                     *)

MaxBallots == 2      \* rows of the Ballots table
MaxQueRows == 2      \* rows of the Questions table
MaxKeyRows == 2      \* rows of the CorrectAnswers table
MaxN == 2            \* largest limit N

VoterNames == {1, 2}
QuestionTexts == {1, 2}
ChoiceTexts == {1, 2}
VoteTimes == {0, 3, 6}   \* minutes
CreateTimes == {1}       \* minutes
StaleVotes == {0, 7}     \* 'votes' values carried by the source table

----------------------------------------------------------------------------
(* Cells and series                                                        *)

Val(x) == [num |-> x, den |-> 1, na |-> FALSE]

Ratio(a, b) == [num |-> a, den |-> b, na |-> FALSE]

NaN == [num |-> 0, den |-> 1, na |-> TRUE]

\* a < b on non-missing cells (denominators are positive)
Less(a, b) == a.num * b.den < b.num * a.den

Entry(k, v) == [key |-> k, val |-> v]

SeqsUpTo(S, len) == UNION {[1..k -> S] : k \in 0..len}

Range(s) == {s[i] : i \in DOMAIN s}

Min2(a, b) == IF a <= b THEN a ELSE b

\* the set S as an ascending sequence (groupby sorts its keys)
RECURSIVE SortedKeys(_)
SortedKeys(S) ==
    IF S = {} THEN <<>>
    ELSE LET m == CHOOSE x \in S : \A y \in S : x <= y
         IN <<m>> \o SortedKeys(S \ {m})

\* insert e into the ascending sequence s after every entry not greater than it
RECURSIVE InsertAsc(_, _)
InsertAsc(e, s) ==
    IF s = <<>> THEN <<e>>
    ELSE IF Less(e.val, Head(s).val) THEN <<e>> \o s
    ELSE <<Head(s)>> \o InsertAsc(e, Tail(s))

\* insert e into the descending sequence s after every entry not smaller than it
RECURSIVE InsertDesc(_, _)
InsertDesc(e, s) ==
    IF s = <<>> THEN <<e>>
    ELSE IF Less(Head(s).val, e.val) THEN <<e>> \o s
    ELSE <<Head(s)>> \o InsertDesc(e, Tail(s))

RECURSIVE StableAsc(_)
StableAsc(s) ==
    IF s = <<>> THEN <<>>
    ELSE InsertAsc(s[Len(s)], StableAsc(SubSeq(s, 1, Len(s) - 1)))

RECURSIVE StableDesc(_)
StableDesc(s) ==
    IF s = <<>> THEN <<>>
    ELSE InsertDesc(s[Len(s)], StableDesc(SubSeq(s, 1, Len(s) - 1)))

IsNa(e) == e.val.na

NotNa(e) == ~e.val.na

\* sort_values(ascending=True): stable on equal values, missing values last
sort_values(s) == StableAsc(SelectSeq(s, NotNa)) \o SelectSeq(s, IsNa)

\* sort_values(ascending=False): stable on equal values, missing values last
sort_values_desc(s) == StableDesc(SelectSeq(s, NotNa)) \o SelectSeq(s, IsNa)

\* head that keeps one row too many
head_one_more(s, k) == SubSeq(s, 1, Min2(k + 1, Len(s)))

head(s, k) == SubSeq(s, 1, Min2(k, Len(s)))

tail(s, k) == SubSeq(s, Len(s) - Min2(k, Len(s)) + 1, Len(s))

\* Series.nsmallest(k), keep='first': missing values come after every value
nsmallest(s, k) == head(sort_values(s), k)

\* Series.nlargest(k) / DataFrame.nlargest(k, column), keep='first'
nlargest(s, k) == head(sort_values_desc(s), k)

\* the distinct values of a sequence, in order of first occurrence
RECURSIVE Unique(_)
Unique(s) ==
    IF s = <<>> THEN <<>>
    ELSE LET r == Unique(SubSeq(s, 1, Len(s) - 1))
         IN IF s[Len(s)] \in Range(r) THEN r ELSE Append(r, s[Len(s)])

Column(t, f) == [i \in DOMAIN t |-> t[i][f]]

\* largest / smallest of a non-empty set of non-missing cells
MaxCell(S) == CHOOSE c \in S : \A d \in S : ~Less(c, d)

MinCell(S) == CHOOSE c \in S : \A d \in S : ~Less(d, c)

\* value_counts that sorts by count, smallest first
value_counts_ascending(col) ==
    LET u == Unique(col)
    IN sort_values([i \in DOMAIN u |->
           Entry(u[i], Val(Cardinality({j \in DOMAIN col : col[j] = u[i]})))])

\* Series.value_counts(): one entry per distinct value, first-occurrence order,
\* then sorted by count, largest first
value_counts(col) ==
    LET u == Unique(col)
    IN sort_values_desc([i \in DOMAIN u |->
           Entry(u[i], Val(Cardinality({j \in DOMAIN col : col[j] = u[i]})))])

\* DataFrame.sort_values(f): rows by ascending cell f, missing cells last
sort_rows(t, f) ==
    LET s == sort_values([i \in DOMAIN t |-> Entry(t[i], t[i][f])])
    IN [i \in DOMAIN s |-> s[i].key]

\* DataFrame.drop_duplicates([f]): the first row of each value of f
RECURSIVE drop_duplicates(_, _)
drop_duplicates(t, f) ==
    IF t = <<>> THEN <<>>
    ELSE LET r == drop_duplicates(SubSeq(t, 1, Len(t) - 1), f)
             x == t[Len(t)]
         IN IF \E i \in DOMAIN r : r[i][f] = x[f] THEN r ELSE Append(r, x)

\* groupby(f): the group keys, ascending
GroupKeys(t, f) == SortedKeys({t[i][f] : i \in DOMAIN t})

\* groupby(f).size()
groupby_size(t, f) ==
    LET g == GroupKeys(t, f)
    IN [i \in DOMAIN g |->
           Entry(g[i], Val(Cardinality({j \in DOMAIN t : t[j][f] = g[i]})))]

\* groupby(f)[c].max(): missing cells are skipped, a group of none but missing
\* cells yields a missing value
groupby_max(t, f, c) ==
    LET g == GroupKeys(t, f)
        cells(k) == {t[j][c] : j \in {j \in DOMAIN t : t[j][f] = k /\ ~t[j][c].na}}
    IN [i \in DOMAIN g |->
           Entry(g[i], IF cells(g[i]) = {} THEN NaN ELSE MaxCell(cells(g[i])))]

\* groupby(f)[c].min()
groupby_min(t, f, c) ==
    LET g == GroupKeys(t, f)
        cells(k) == {t[j][c] : j \in {j \in DOMAIN t : t[j][f] = k /\ ~t[j][c].na}}
    IN [i \in DOMAIN g |->
           Entry(g[i], IF cells(g[i]) = {} THEN NaN ELSE MinCell(cells(g[i])))]

RECURSIVE Concat(_)
Concat(ss) == IF ss = <<>> THEN <<>> ELSE Head(ss) \o Concat(Tail(ss))

----------------------------------------------------------------------------
(* quiz_dashboard3.py                                                      *)

\* (voting_time - que_created_at).dt.total_seconds()
total_seconds(vt, ct) == IF vt.na \/ ct.na THEN NaN ELSE Val(60 * (vt.num - ct.num))

\* the join as an inner join: a ballot without a question row is dropped
merge_inner(ballots, que) ==
    LET RowsOf(b) ==
            LET m == SelectSeq(que, LAMBDA q : q.que_text = b.question_text)
            IN [i \in DOMAIN m |->
                   [voter_name |-> b.voter_name, question_text |-> b.question_text,
                    choice |-> b.choice, voting_time |-> b.voting_time,
                    ballot |-> b.ballot,
                    que_text |-> m[i].que_text, que_created_at |-> m[i].que_created_at]]
    IN Concat([i \in DOMAIN ballots |-> RowsOf(ballots[i])])

\* voter_df.merge(que_ans_df[['que_text', 'que_created_at']],
\*                left_on='question_text', right_on='que_text', how='left')
\* a ballot without a matching question row is kept, with missing que_text
\* (written 0) and que_created_at
merge_left(ballots, que) ==
    LET Joined(b, q_text, q_time) ==
            [voter_name |-> b.voter_name, question_text |-> b.question_text,
             choice |-> b.choice, voting_time |-> b.voting_time,
             ballot |-> b.ballot,
             que_text |-> q_text, que_created_at |-> q_time]
        RowsOf(b) ==
            LET m == SelectSeq(que, LAMBDA q : q.que_text = b.question_text)
            IN IF m = <<>> THEN <<Joined(b, 0, NaN)>>
               ELSE [i \in DOMAIN m |-> Joined(b, m[i].que_text, m[i].que_created_at)]
    IN Concat([i \in DOMAIN ballots |-> RowsOf(ballots[i])])

\* load_data: the ballots joined to the question rows, with response_time
load_data_voter(ballots, que) ==
    LET m == merge_left(ballots, que)
    IN [i \in DOMAIN m |->
           [voter_name |-> m[i].voter_name, question_text |-> m[i].question_text,
            choice |-> m[i].choice, voting_time |-> m[i].voting_time,
            ballot |-> m[i].ballot,
            que_text |-> m[i].que_text, que_created_at |-> m[i].que_created_at,
            response_time |-> total_seconds(m[i].voting_time, m[i].que_created_at)]]

\* pd.merge(voter_df, correct_answers_df.rename(...), on='question_text'),
\* with the is_correct column
merged_df(voters, key) ==
    LET RowsOf(v) ==
            LET m == SelectSeq(key, LAMBDA k : k.que_text = v.question_text)
            IN [i \in DOMAIN m |->
                   [voter_name |-> v.voter_name, question_text |-> v.question_text,
                    choice |-> v.choice, ballot |-> v.ballot,
                    ans_text |-> m[i].ans_text,
                    is_correct |-> (v.choice = m[i].ans_text)]]
    IN Concat([i \in DOMAIN voters |-> RowsOf(voters[i])])

HasLatency(r) == ~r.response_time.na

\* groupby(f) over the merged table: per key the number of rows and of correct rows
GroupCount(m, f, k) == Cardinality({j \in DOMAIN m : m[j][f] = k})

GroupCorrect(m, f, k) == Cardinality({j \in DOMAIN m : m[j][f] = k /\ m[j].is_correct})

\* insights['active_voters']
active_voters(v, lim) == head(value_counts(Column(v, "voter_name")), lim)

\* insights['early_birds']
early_birds(v, lim) ==
    nlargest(groupby_size(drop_duplicates(sort_rows(SelectSeq(v, HasLatency),
                                                    "response_time"),
                                          "question_text"),
                          "voter_name"),
             lim)

\* insights['incorrect_questions']: (~is_correct).mean() per question
incorrect_questions(m, lim) ==
    LET g == GroupKeys(m, "question_text")
    IN nlargest([i \in DOMAIN g |->
                    Entry(g[i], Ratio(GroupCount(m, "question_text", g[i])
                                          - GroupCorrect(m, "question_text", g[i]),
                                      GroupCount(m, "question_text", g[i])))],
                lim)

\* a question counts as easy when at least half of its ballots are correct
IsMostlyCorrect(e) == 2 * e.val.num >= e.val.den

IsAllCorrect(e) == e.val.num = e.val.den

\* insights['easy_questions']: is_correct.mean() per question, == 1.0
easy_questions(m, lim) ==
    LET g == GroupKeys(m, "question_text")
    IN head(SelectSeq([i \in DOMAIN g |->
                          Entry(g[i], Ratio(GroupCorrect(m, "question_text", g[i]),
                                            GroupCount(m, "question_text", g[i])))],
                      IsAllCorrect),
            lim)

\* insights['least_active']
least_active(v, lim) == tail(value_counts(Column(v, "voter_name")), lim)

\* inactive followers with the voters without a timestamp sorted first
inactive_followers_na_first(v, lim) ==
    LET g == groupby_max(v, "voter_name", "voting_time")
    IN head(SelectSeq(g, IsNa) \o StableAsc(SelectSeq(g, NotNa)), lim)

\* insights['inactive_followers']
inactive_followers(v, lim) == nsmallest(groupby_max(v, "voter_name", "voting_time"), lim)

\* good performers ranked over the correct merged ballots only
good_performers_correct_only(m, lim) ==
    LET c == SelectSeq(m, LAMBDA r : r.is_correct)
        g == GroupKeys(c, "voter_name")
    IN nlargest([i \in DOMAIN g |->
                    [key |-> g[i],
                     count |-> GroupCount(c, "voter_name", g[i]),
                     sum |-> GroupCorrect(c, "voter_name", g[i]),
                     val |-> Ratio(100 * GroupCorrect(c, "voter_name", g[i]),
                                   GroupCount(c, "voter_name", g[i]))]],
                lim)

\* insights['good_performers']: count, sum and accuracy = sum / count * 100
good_performers(m, lim) ==
    LET g == GroupKeys(m, "voter_name")
    IN nlargest([i \in DOMAIN g |->
                    [key |-> g[i],
                     count |-> GroupCount(m, "voter_name", g[i]),
                     sum |-> GroupCorrect(m, "voter_name", g[i]),
                     val |-> Ratio(100 * GroupCorrect(m, "voter_name", g[i]),
                                   GroupCount(m, "voter_name", g[i]))]],
                lim)

\* insights['least_voted']
least_voted(v, lim) == nsmallest(value_counts(Column(v, "question_text")), lim)

\* fast responses without the removal of the rows that have no latency
fast_responses_unfiltered(v, lim) ==
    nsmallest(groupby_min(v, "question_text", "response_time"), lim)

\* insights['fast_responses']
fast_responses(v, lim) ==
    nsmallest(groupby_min(SelectSeq(v, HasLatency), "question_text", "response_time"), lim)

\* insights['slow_responses']
slow_responses(v, lim) ==
    nlargest(groupby_max(SelectSeq(v, HasLatency), "question_text", "response_time"), lim)

calculate_insights(v, key, lim) ==
    LET m == merged_df(v, key)
    IN [active_voters |-> active_voters(v, lim),
        early_birds |-> early_birds(v, lim),
        incorrect_questions |-> incorrect_questions(m, lim),
        easy_questions |-> easy_questions(m, lim),
        least_active |-> least_active(v, lim),
        inactive_followers |-> inactive_followers(v, lim),
        good_performers |-> good_performers(m, lim),
        least_voted |-> least_voted(v, lim),
        fast_responses |-> fast_responses(v, lim),
        slow_responses |-> slow_responses(v, lim)]

----------------------------------------------------------------------------
(* Inputs                                                                  *)

TimeCells == {Val(t) : t \in VoteTimes} \cup {NaN}

\* a table of ballots with the ballot column: the row's position in the file
Numbered(t) ==
    [i \in DOMAIN t |->
        [voter_name |-> t[i].voter_name, question_text |-> t[i].question_text,
         choice |-> t[i].choice, voting_time |-> t[i].voting_time, ballot |-> i]]

\* Cleaned_Voter.xlsx. No metric reads both the choice and the voting time of
\* a ballot, so the tables vary one of the two and fix the other.
TimedBallotTables ==
    {Numbered(t) : t \in SeqsUpTo([voter_name : VoterNames,
                                   question_text : QuestionTexts,
                                   choice : {1},
                                   voting_time : TimeCells], MaxBallots)}

ChoiceBallotTables ==
    {Numbered(t) : t \in SeqsUpTo([voter_name : VoterNames,
                                   question_text : QuestionTexts,
                                   choice : ChoiceTexts,
                                   voting_time : {Val(3)}], MaxBallots)}

\* rows in file order keep each question's rows together, in question order
Grouped(t, f) == \A i, j \in DOMAIN t : i < j => t[i][f] <= t[j][f]

\* Cleaned_Que_Ans.xlsx: one row per question and answer option
QueRows ==
    [que_text : QuestionTexts, que_created_at : {Val(t) : t \in CreateTimes},
     ans_text : {1}, votes : {0}]

QueTables == {t \in SeqsUpTo(QueRows, MaxQueRows) : Grouped(t, "que_text")}

\* Cleaned_Correct_Answers.xlsx
KeyRows == [que_text : QuestionTexts, ans_text : {1}]

KeyTables == {t \in SeqsUpTo(KeyRows, MaxKeyRows) : Grouped(t, "que_text")}

DashboardInputs ==
    [q : QueTables, b : TimedBallotTables, k : {<<>>}]
        \cup [q : QueTables, b : ChoiceBallotTables, k : KeyTables]

NoInsights == [active_voters |-> <<>>, early_birds |-> <<>>,
               incorrect_questions |-> <<>>, easy_questions |-> <<>>,
               least_active |-> <<>>, inactive_followers |-> <<>>,
               good_performers |-> <<>>, least_voted |-> <<>>,
               fast_responses |-> <<>>, slow_responses |-> <<>>]

----------------------------------------------------------------------------
(* quiz_dashboard3.py: main                                                *)

Init ==
    /\ pc = "start"
    /\ cleaned_voter = <<>>
    /\ que_ans_df = <<>>
    /\ voter_df = <<>>
    /\ correct_answers_df = <<>>
    /\ idx = 0
    /\ n = 0
    /\ insights = NoInsights

\* load_data(): reads the three files, joins the ballots to the question rows
LoadData ==
    /\ pc = "start"
    /\ \E in \in DashboardInputs :
          /\ cleaned_voter' = in.b
          /\ que_ans_df' = in.q
          /\ voter_df' = load_data_voter(in.b, in.q)
          /\ correct_answers_df' = in.k
    /\ pc' = "loaded"
    /\ UNCHANGED <<idx, n, insights>>

\* main(): n from the slider, insights = calculate_insights(voter_df, ..., n).
\* The slider offers 5..50; calculate_insights takes any n, and the small
\* tables here need small limits for the limit to cut.
CalculateInsights ==
    /\ pc = "loaded"
    /\ \E lim \in 1..MaxN :
          /\ n' = lim
          /\ insights' = calculate_insights(voter_df, correct_answers_df, lim)
    /\ pc' = "done"
    /\ UNCHANGED <<cleaned_voter, que_ans_df, voter_df, correct_answers_df, idx>>

Next == LoadData \/ CalculateInsights

Spec == Init /\ [][Next]_vars

----------------------------------------------------------------------------
(* quiz_dashboard.py                                                       *)

RECURSIVE SumCells(_)
SumCells(cs) == IF cs = <<>> THEN 0 ELSE Head(cs).num + SumCells(Tail(cs))

\* groupby(f)[c].mean(): missing cells are skipped
groupby_mean(t, f, c) ==
    LET g == GroupKeys(t, f)
        cells(k) == Column(SelectSeq(t, LAMBDA r : r[f] = k /\ ~r[c].na), c)
    IN [i \in DOMAIN g |->
           Entry(g[i], IF cells(g[i]) = <<>> THEN NaN
                       ELSE Ratio(SumCells(cells(g[i])), Len(cells(g[i]))))]

\* insights['early_birds'] of quiz_dashboard.py: rows with a missing
\* response_time are sorted last, not removed
early_birds_v1(v, lim) ==
    nlargest(groupby_size(drop_duplicates(sort_rows(v, "response_time"),
                                          "question_text"),
                          "voter_name"),
             lim)

\* insights['response_times']
response_times(v, lim) == head(sort_values(groupby_mean(v, "question_text", "response_time")), lim)

calculate_insights_v1(v, key, lim) ==
    LET m == merged_df(v, key)
    IN [active_voters |-> active_voters(v, lim),
        early_birds |-> early_birds_v1(v, lim),
        incorrect_questions |-> incorrect_questions(m, lim),
        good_performers |-> good_performers(m, lim),
        response_times |-> response_times(v, lim)]

\* the response_time cells of a voter file that carries the column
LatencyCells ==
    {total_seconds(Val(vt), Val(ct)) : vt \in VoteTimes, ct \in CreateTimes} \cup {NaN}

NumberedV1(t) ==
    [i \in DOMAIN t |->
        [voter_name |-> t[i].voter_name, question_text |-> t[i].question_text,
         choice |-> t[i].choice, response_time |-> t[i].response_time, ballot |-> i]]

LatencyBallotTables ==
    {NumberedV1(t) : t \in SeqsUpTo([voter_name : VoterNames,
                                     question_text : QuestionTexts,
                                     choice : {1},
                                     response_time : LatencyCells], MaxBallots)}

InitV1 ==
    /\ pc = "v1_start"
    /\ cleaned_voter = <<>>
    /\ que_ans_df = <<>>
    /\ voter_df = <<>>
    /\ correct_answers_df = <<>>
    /\ idx = 0
    /\ n = 0
    /\ insights = NoInsights

\* load_data() of quiz_dashboard.py: the files as read; no metric of this
\* script reads the question table, which stays empty here
LoadDataV1 ==
    /\ pc = "v1_start"
    /\ \E b \in LatencyBallotTables, k \in KeyTables :
          /\ cleaned_voter' = b
          /\ voter_df' = b
          /\ correct_answers_df' = k
    /\ pc' = "v1_loaded"
    /\ UNCHANGED <<que_ans_df, idx, n, insights>>

CalculateInsightsV1 ==
    /\ pc = "v1_loaded"
    /\ \E lim \in 1..MaxN :
          /\ n' = lim
          /\ insights' = calculate_insights_v1(voter_df, correct_answers_df, lim)
    /\ pc' = "v1_done"
    /\ UNCHANGED <<cleaned_voter, que_ans_df, voter_df, correct_answers_df, idx>>

NextV1 == LoadDataV1 \/ CalculateInsightsV1

SpecV1 == InitV1 /\ [][NextV1]_vars

----------------------------------------------------------------------------
(* get_cleaned.py                                                          *)

\* Que_Ans.xlsx with the tally column it carries
RawQueRows ==
    [que_text : QuestionTexts, que_created_at : {Val(t) : t \in CreateTimes},
     ans_text : ChoiceTexts, votes : StaleVotes]

RawQueTables == SeqsUpTo(RawQueRows, MaxQueRows)

\* Voter.xlsx
RawBallotTables ==
    {Numbered(t) : t \in SeqsUpTo([voter_name : {1},
                                   question_text : QuestionTexts,
                                   choice : ChoiceTexts,
                                   voting_time : {Val(3)}], MaxBallots)}

\* voter_df[(question_text == q) & (choice == c)].shape[0]
choice_voter_count(v, q, c) ==
    Cardinality({i \in DOMAIN v : v[i].question_text = q /\ v[i].choice = c})

\* voter_df[voter_df['question_text'] == q]['choice'].unique()
choices_of(v, q) == Unique(Column(SelectSeq(v, LAMBDA r : r.question_text = q), "choice"))

\* one pass of the loop body for the row at position i: every choice voted
\* for the row's question has its tally written to the matching rows
reconcile_row(que, v, i) ==
    LET q == que[i].que_text
        cs == Range(choices_of(v, q))
    IN [j \in DOMAIN que |->
           IF que[j].que_text = q /\ que[j].ans_text \in cs
           THEN [que[j] EXCEPT !.votes = choice_voter_count(v, q, que[j].ans_text)]
           ELSE que[j]]

InitClean ==
    /\ pc = "clean_start"
    /\ cleaned_voter = <<>>
    /\ que_ans_df = <<>>
    /\ voter_df = <<>>
    /\ correct_answers_df = <<>>
    /\ idx = 0
    /\ n = 0
    /\ insights = NoInsights

\* pd.read_excel of the two tables the loop uses
ReadExcel ==
    /\ pc = "clean_start"
    /\ \E q \in RawQueTables, b \in RawBallotTables :
          /\ que_ans_df' = q
          /\ voter_df' = b
    /\ idx' = 1
    /\ pc' = "reconcile"
    /\ UNCHANGED <<cleaned_voter, correct_answers_df, n, insights>>

\* for idx, row in que_ans_df.iterrows(): ...
ReconcileRow ==
    /\ pc = "reconcile"
    /\ idx <= Len(que_ans_df)
    /\ que_ans_df' = reconcile_row(que_ans_df, voter_df, idx)
    /\ idx' = idx + 1
    /\ UNCHANGED <<pc, cleaned_voter, voter_df, correct_answers_df, n, insights>>

\* the loop is exhausted
ReconcileDone ==
    /\ pc = "reconcile"
    /\ idx > Len(que_ans_df)
    /\ pc' = "clean_done"
    /\ UNCHANGED <<cleaned_voter, que_ans_df, voter_df, correct_answers_df, idx, n, insights>>

NextClean == ReadExcel \/ ReconcileRow \/ ReconcileDone

SpecClean == InitClean /\ [][NextClean]_vars

----------------------------------------------------------------------------
(* Measures the properties are stated with, taken from the tables directly *)

Done == pc = "done"

SameVal(a, b) == ~a.na /\ ~b.na /\ a.num * b.den = b.num * a.den

Keys(s) == {s[i].key : i \in DOMAIN s}

DistinctKeys(s) == \A i, j \in DOMAIN s : s[i].key = s[j].key => i = j

NonIncreasing(s) == \A i \in DOMAIN s : i < Len(s) => ~Less(s[i].val, s[i + 1].val)

NonDecreasing(s) == \A i \in DOMAIN s : i < Len(s) => ~Less(s[i + 1].val, s[i].val)

\* s lists min(n, |K|) distinct keys of K with their values V, and no key left
\* out has a larger value than a listed one
LargestOf(s, K, V(_)) ==
    /\ Len(s) = Min2(n, Cardinality(K))
    /\ DistinctKeys(s)
    /\ \A i \in DOMAIN s : s[i].key \in K /\ SameVal(s[i].val, V(s[i].key))
    /\ \A k \in K \ Keys(s) : \A i \in DOMAIN s : ~Less(s[i].val, V(k))

SmallestOf(s, K, V(_)) ==
    /\ Len(s) = Min2(n, Cardinality(K))
    /\ DistinctKeys(s)
    /\ \A i \in DOMAIN s : s[i].key \in K /\ SameVal(s[i].val, V(s[i].key))
    /\ \A k \in K \ Keys(s) : \A i \in DOMAIN s : ~Less(V(k), s[i].val)

\* question rows a ballot's question text equals
QueMatches(b) == {j \in DOMAIN que_ans_df : que_ans_df[j].que_text = b.question_text}

Unmatched(b) == QueMatches(b) = {}

IsMatched(r) == \E j \in DOMAIN que_ans_df : que_ans_df[j].que_text = r.question_text

\* rows the ballots at positions B of the voter file have after the left join:
\* one per matching question row, one for a ballot that matches none
JoinedRows(B) ==
    Cardinality({p \in B \X (DOMAIN que_ans_df) :
                    que_ans_df[p[2]].que_text = cleaned_voter[p[1]].question_text})
        + Cardinality({i \in B : Unmatched(cleaned_voter[i])})

\* (row of voter_df, row of the answer key) pairs with the same question text
MergedPairs ==
    {p \in (DOMAIN voter_df) \X (DOMAIN correct_answers_df) :
        voter_df[p[1]].question_text = correct_answers_df[p[2]].que_text}

PairCorrect(p) == voter_df[p[1]].choice = correct_answers_df[p[2]].ans_text

VoterPairs(v) == {p \in MergedPairs : voter_df[p[1]].voter_name = v}

QuestionPairs(q) == {p \in MergedPairs : voter_df[p[1]].question_text = q}

AllVoters == {voter_df[i].voter_name : i \in DOMAIN voter_df}

AllQuestions == {voter_df[i].question_text : i \in DOMAIN voter_df}

MergedVoters == {v \in AllVoters : VoterPairs(v) # {}}

MergedQuestions == {q \in AllQuestions : QuestionPairs(q) # {}}

EasySet == {q \in MergedQuestions : \A p \in QuestionPairs(q) : PairCorrect(p)}

VoterBallots(v) == Val(Cardinality({i \in DOMAIN voter_df : voter_df[i].voter_name = v}))

QuestionBallots(q) ==
    Val(Cardinality({i \in DOMAIN voter_df : voter_df[i].question_text = q}))

Accuracy(v) ==
    Ratio(100 * Cardinality({p \in VoterPairs(v) : PairCorrect(p)}),
          Cardinality(VoterPairs(v)))

IncorrectFraction(q) ==
    Ratio(Cardinality({p \in QuestionPairs(q) : ~PairCorrect(p)}),
          Cardinality(QuestionPairs(q)))

\* latencies, in seconds, of the ballots of question q whose voting time and
\* whose question's creation time are both present
Latencies(q) ==
    {60 * (cleaned_voter[p[1]].voting_time.num - que_ans_df[p[2]].que_created_at.num) :
        p \in {p \in (DOMAIN cleaned_voter) \X (DOMAIN que_ans_df) :
                  /\ cleaned_voter[p[1]].question_text = q
                  /\ que_ans_df[p[2]].que_text = q
                  /\ ~cleaned_voter[p[1]].voting_time.na
                  /\ ~que_ans_df[p[2]].que_created_at.na}}

TimedQuestions == {q \in QuestionTexts : Latencies(q) # {}}

MinLatency(q) == Val(CHOOSE x \in Latencies(q) : \A y \in Latencies(q) : x <= y)

MaxLatency(q) == Val(CHOOSE x \in Latencies(q) : \A y \in Latencies(q) : x >= y)

\* voting times of voter v that are present
SeenTimes(v) ==
    {cleaned_voter[i].voting_time.num :
        i \in {i \in DOMAIN cleaned_voter :
                  cleaned_voter[i].voter_name = v /\ ~cleaned_voter[i].voting_time.na}}

TimedVoters == {v \in AllVoters : SeenTimes(v) # {}}

UntimedVoters == AllVoters \ TimedVoters

LastSeen(v) == Val(CHOOSE x \in SeenTimes(v) : \A y \in SeenTimes(v) : x >= y)

----------------------------------------------------------------------------
(* C1: after the reconciliation loop every row (Q, C) of the question      *)
(* table carries as votes the number of ballots with question_text Q and   *)
(* choice C, 0 when no ballot selects the pair.                            *)
C1_TallyIsBallotCount ==
    pc = "clean_done" =>
        \A j \in DOMAIN que_ans_df :
            que_ans_df[j].votes =
                Cardinality({i \in DOMAIN voter_df :
                                /\ voter_df[i].question_text = que_ans_df[j].que_text
                                /\ voter_df[i].choice = que_ans_df[j].ans_text})

\* the failing case of C1: a row no ballot selects keeps the tally it came with
C1_StaleTallyKept ==
    /\ pc = "clean_done"
    /\ \E j \in DOMAIN que_ans_df :
          /\ que_ans_df[j].votes # 0
          /\ \A i \in DOMAIN voter_df :
                ~(/\ voter_df[i].question_text = que_ans_df[j].que_text
                  /\ voter_df[i].choice = que_ans_df[j].ans_text)

\* C1 for the rows some ballot selects: they do carry the ballot count
C1_SelectedPairsAreCounted ==
    pc = "clean_done" =>
        \A j \in DOMAIN que_ans_df :
            LET c == Cardinality({i \in DOMAIN voter_df :
                                     /\ voter_df[i].question_text = que_ans_df[j].que_text
                                     /\ voter_df[i].choice = que_ans_df[j].ans_text})
            IN c > 0 => que_ans_df[j].votes = c

C3_OneRecordPerBallotAndKeyRow ==
    pc \in {"loaded", "done"} =>
        Len(merged_df(voter_df, correct_answers_df))
            = Cardinality({p \in (DOMAIN cleaned_voter) \X (DOMAIN correct_answers_df) :
                              cleaned_voter[p[1]].question_text
                                  = correct_answers_df[p[2]].que_text})

\* the failing case of C3: one ballot, its question on two question rows
C3_DuplicatedQuestionRows ==
    /\ pc = "loaded"
    /\ Len(cleaned_voter) = 1
    /\ Cardinality(QueMatches(cleaned_voter[1])) = 2
    /\ Len(correct_answers_df) = 1
    /\ Len(merged_df(voter_df, correct_answers_df)) = 2

(* C4: for every limit N >= 1 each sequence calculate_insights returns has  *)
(* min(N, number of eligible grouping keys) entries, hence at most N.       *)
C4_LengthIsMinOfLimitAndKeys ==
    Done =>
        LET Credited == Keys(early_birds(voter_df, Len(voter_df) + 1))
            Fits(s, K) == Len(s) <= n /\ Len(s) = Min2(n, Cardinality(K))
        IN /\ n >= 1
           /\ Fits(insights.active_voters, AllVoters)
           /\ Fits(insights.least_active, AllVoters)
           /\ Fits(insights.early_birds, Credited)
           /\ Fits(insights.inactive_followers, AllVoters)
           /\ Fits(insights.good_performers, MergedVoters)
           /\ Fits(insights.incorrect_questions, MergedQuestions)
           /\ Fits(insights.easy_questions, EasySet)
           /\ Fits(insights.least_voted, AllQuestions)
           /\ Fits(insights.fast_responses, TimedQuestions)
           /\ Fits(insights.slow_responses, TimedQuestions)

\* the limit cuts: two voters and two questions qualify everywhere, N = 1
C4_Witness ==
    /\ Done
    /\ n = 1
    /\ Cardinality(AllVoters) = 2
    /\ Cardinality(MergedVoters) = 2
    /\ Cardinality(EasySet) = 2
    /\ Len(insights.active_voters) = 1
    /\ Len(insights.good_performers) = 1
    /\ Len(insights.easy_questions) = 1

(* C5 as stated: every ranked metric is monotone in its declared order and *)
(* is the true top N under it; least-active voters are the N voters with   *)
(* the fewest ballots, listed lowest first.                                *)
C5_RankedAsDeclared ==
    Done =>
        /\ NonIncreasing(insights.active_voters)
        /\ LargestOf(insights.active_voters, AllVoters, VoterBallots)
        /\ NonDecreasing(insights.least_active)
        /\ SmallestOf(insights.least_active, AllVoters, VoterBallots)
        /\ NonIncreasing(insights.incorrect_questions)
        /\ LargestOf(insights.incorrect_questions, MergedQuestions, IncorrectFraction)
        /\ NonIncreasing(insights.good_performers)
        /\ LargestOf(insights.good_performers, MergedVoters, Accuracy)
        /\ NonDecreasing(insights.least_voted)
        /\ SmallestOf(insights.least_voted, AllQuestions, QuestionBallots)
        /\ NonDecreasing(insights.fast_responses)
        /\ SmallestOf(insights.fast_responses, TimedQuestions, MinLatency)
        /\ NonIncreasing(insights.slow_responses)
        /\ LargestOf(insights.slow_responses, TimedQuestions, MaxLatency)

(* C5 as amended: the same, except that the least-active voters, still the *)
(* N voters with the fewest ballots, are listed in non-increasing ballot   *)
(* count, the least active last. A ballot count is the number of rows of   *)
(* the table handed to calculate_insights.                                 *)
C5_RankedWithLeastActiveLast ==
    Done =>
        /\ NonIncreasing(insights.active_voters)
        /\ LargestOf(insights.active_voters, AllVoters, VoterBallots)
        /\ NonIncreasing(insights.least_active)
        /\ SmallestOf(insights.least_active, AllVoters, VoterBallots)
        /\ NonIncreasing(insights.incorrect_questions)
        /\ LargestOf(insights.incorrect_questions, MergedQuestions, IncorrectFraction)
        /\ NonIncreasing(insights.good_performers)
        /\ LargestOf(insights.good_performers, MergedVoters, Accuracy)
        /\ NonDecreasing(insights.least_voted)
        /\ SmallestOf(insights.least_voted, AllQuestions, QuestionBallots)
        /\ NonDecreasing(insights.fast_responses)
        /\ SmallestOf(insights.fast_responses, TimedQuestions, MinLatency)
        /\ NonIncreasing(insights.slow_responses)
        /\ LargestOf(insights.slow_responses, TimedQuestions, MaxLatency)

\* two least-active voters with different ballot counts, the larger first,
\* and a good performer ranked above a worse one
C5_Witness ==
    /\ Done
    /\ Len(insights.least_active) = 2
    /\ Less(insights.least_active[2].val, insights.least_active[1].val)
    /\ Len(insights.good_performers) = 2
    /\ Less(insights.good_performers[2].val, insights.good_performers[1].val)

C7_EasyMeansAllCorrect ==
    Done =>
        /\ \A i \in DOMAIN insights.easy_questions :
              LET q == insights.easy_questions[i].key
              IN /\ QuestionPairs(q) # {}
                 /\ \A p \in QuestionPairs(q) : PairCorrect(p)
        /\ DistinctKeys(insights.easy_questions)
        /\ Cardinality(EasySet) > n => Len(insights.easy_questions) = n
        /\ Cardinality(EasySet) <= n => Keys(insights.easy_questions) = EasySet

\* a question with one correct and one incorrect merged ballot is left out
C7_Witness ==
    /\ Done
    /\ \E q \in MergedQuestions :
          /\ \E p \in QuestionPairs(q) : PairCorrect(p)
          /\ \E p \in QuestionPairs(q) : ~PairCorrect(p)
          /\ q \notin Keys(insights.easy_questions)
    /\ Len(insights.easy_questions) < n

\* questions of the table handed to calculate_insights that have a ballot
\* with a latency
QuestionsWithLatency ==
    {voter_df[i].question_text :
        i \in {i \in DOMAIN voter_df : ~voter_df[i].response_time.na}}

\* early-bird credits: no more of them than questions with a latency, one per
\* such question when the limit cuts nothing, and a credited voter holds a
\* smallest latency of as many questions as the credits say
EarlyBirdCredits(s) ==
    /\ SumCells(Column(s, "val")) <= Cardinality(QuestionsWithLatency)
    /\ n >= Cardinality(VoterNames) =>
          SumCells(Column(s, "val")) = Cardinality(QuestionsWithLatency)
    /\ \A i \in DOMAIN s :
          s[i].val.num <=
              Cardinality({q \in QuestionsWithLatency :
                  \E j \in DOMAIN voter_df :
                      /\ voter_df[j].voter_name = s[i].key
                      /\ voter_df[j].question_text = q
                      /\ ~voter_df[j].response_time.na
                      /\ \A k \in DOMAIN voter_df :
                            (voter_df[k].question_text = q /\ ~voter_df[k].response_time.na)
                                => ~Less(voter_df[k].response_time,
                                         voter_df[j].response_time)})

\* the scenario of the specification: voter 1 after 5 minutes, voter 2 after 2
ScenarioCreditsSecondVoter(s) ==
    (/\ Len(voter_df) = 2
     /\ voter_df[1].voter_name = 1 /\ voter_df[1].response_time = Val(300)
     /\ voter_df[2].voter_name = 2 /\ voter_df[2].response_time = Val(120)
     /\ voter_df[1].question_text = voter_df[2].question_text)
        => Keys(s) = {2}

(* C8, on quiz_dashboard.py: each question credits at most one voter, the   *)
(* one of a ballot with the smallest latency; a question whose ballots all *)
(* miss their latency credits nobody.                                      *)
C8_EarlyBirdsCreditTimedQuestionsV1 ==
    pc = "v1_done" =>
        EarlyBirdCredits(insights.early_birds)
            /\ ScenarioCreditsSecondVoter(insights.early_birds)

(* C8, on quiz_dashboard3.py, where rows without a latency are removed      *)
(* before the ranking.                                                     *)
C8_EarlyBirdsCreditTimedQuestionsV3 ==
    Done =>
        EarlyBirdCredits(insights.early_birds)
            /\ ScenarioCreditsSecondVoter(insights.early_birds)

\* the failing case of C8: a question none of whose ballots has a latency
\* credits a voter
C8_UntimedQuestionCredits ==
    /\ pc = "v1_done"
    /\ QuestionsWithLatency = {}
    /\ insights.early_birds # <<>>

(* C9 as stated: in inactive_followers a voter without any voting timestamp *)
(* comes before every voter that has one, and is never dropped in favour   *)
(* of such a voter.                                                        *)
C9_UntimedVotersFirst ==
    Done =>
        LET s == insights.inactive_followers
        IN /\ \A i, j \in DOMAIN s :
                 (s[i].key \in UntimedVoters /\ s[j].key \in TimedVoters) => i < j
           /\ \A v \in UntimedVoters :
                 v \in Keys(s) \/ (Len(s) = n /\ Keys(s) \subseteq UntimedVoters)

(* C9 as amended: the voters that have a voting timestamp are ordered by    *)
(* their most recent one, oldest first; a voter without any comes after    *)
(* all of them and is listed only when every voter with a timestamp is.    *)
C9_UntimedVotersLast ==
    Done =>
        LET s == insights.inactive_followers
        IN /\ Len(s) = Min2(n, Cardinality(AllVoters))
           /\ DistinctKeys(s)
           /\ Keys(s) \subseteq AllVoters
           /\ \A i, j \in DOMAIN s :
                 (s[i].key \in TimedVoters /\ s[j].key \in UntimedVoters) => i < j
           /\ \A i \in DOMAIN s :
                 IF s[i].key \in TimedVoters
                 THEN SameVal(s[i].val, LastSeen(s[i].key))
                 ELSE s[i].val.na
           /\ \A i, j \in DOMAIN s :
                 (i < j /\ s[j].key \in TimedVoters) => ~Less(s[j].val, s[i].val)
           /\ \A v \in TimedVoters \ Keys(s) :
                 /\ Keys(s) \subseteq TimedVoters
                 /\ \A i \in DOMAIN s : ~Less(LastSeen(v), s[i].val)

\* the limit drops the voter without a timestamp and keeps the one with
C9_Witness ==
    /\ Done
    /\ n = 1
    /\ UntimedVoters # {}
    /\ TimedVoters # {}
    /\ Keys(insights.inactive_followers) \subseteq TimedVoters

----------------------------------------------------------------------------
(* Raw cells of the spreadsheets: strings, timestamps, numbers, missing    *)
(*                                                                         *)
(* A string is the sequence of its characters, so that the substring       *)
(* tests, split, strip, int and the date parsing are computed on the text. *)
(* A date cell is a record [t, s, day, minute]: t = "str" with text s,     *)
(* t = "Timestamp" with the proleptic Gregorian day number and the minute  *)
(* of the day, t = "NaT" for the missing / unparseable marker.  A tally    *)
(* cell is a record [t, s, i]: "str", "int" with value i, or "nan".        *)

MaxCells == 2        \* cells of a raw column

Str(s) == [t |-> "str", s |-> s, day |-> 0, minute |-> 0]
Timestamp(d, m) == [t |-> "Timestamp", s |-> <<>>, day |-> d, minute |-> m]
NaT == [t |-> "NaT", s |-> <<>>, day |-> 0, minute |-> 0]

TallyStr(s) == [t |-> "str", s |-> s, i |-> 0]
TallyInt(i) == [t |-> "int", s |-> <<>>, i |-> i]
TallyNaN == [t |-> "nan", s |-> <<>>, i |-> 0]

IsDigit(c) == c \in {"0", "1", "2", "3", "4", "5", "6", "7", "8", "9"}

DigitVal(c) ==
    CASE c = "0" -> 0 [] c = "1" -> 1 [] c = "2" -> 2 [] c = "3" -> 3
      [] c = "4" -> 4 [] c = "5" -> 5 [] c = "6" -> 6 [] c = "7" -> 7
      [] c = "8" -> 8 [] c = "9" -> 9

DigitChar(d) == <<"0", "1", "2", "3", "4", "5", "6", "7", "8", "9">>[d + 1]

\* sub in s
Contains(s, sub) ==
    \E i \in 1..(Len(s) - Len(sub) + 1) : SubSeq(s, i, i + Len(sub) - 1) = sub

\* s.split(sep)[-1]: what follows the last occurrence of sep, s when none
split_last(s, sep) ==
    LET at == {i \in 1..(Len(s) - Len(sep) + 1) :
                  SubSeq(s, i, i + Len(sep) - 1) = sep}
    IN IF at = {} THEN s
       ELSE LET last == CHOOSE i \in at : \A j \in at : j <= i
            IN SubSeq(s, last + Len(sep), Len(s))

\* s.strip()
RECURSIVE strip(_)
strip(s) ==
    IF s = <<>> THEN s
    ELSE IF Head(s) = " " THEN strip(Tail(s))
    ELSE IF s[Len(s)] = " " THEN strip(SubSeq(s, 1, Len(s) - 1))
    ELSE s

\* s.split(c) for a one-character separator: empty pieces are kept
RECURSIVE split_on(_, _)
split_on(s, c) ==
    LET at == {i \in DOMAIN s : s[i] = c}
    IN IF at = {} THEN <<s>>
       ELSE LET first == CHOOSE i \in at : \A j \in at : i <= j
            IN <<SubSeq(s, 1, first - 1)>>
                   \o split_on(SubSeq(s, first + 1, Len(s)), c)

\* s.split(): the words between runs of blanks, no empty word
split(s) == SelectSeq(split_on(s, " "), LAMBDA w : w # <<>>)

\* int(w) succeeds on a word of decimal digits (the texts of the model carry
\* no sign and no underscore)
IsInt(w) == w # <<>> /\ \A i \in DOMAIN w : IsDigit(w[i])

RECURSIVE IntOf(_)
IntOf(w) ==
    IF w = <<>> THEN 0
    ELSE 10 * IntOf(SubSeq(w, 1, Len(w) - 1)) + DigitVal(w[Len(w)])

----------------------------------------------------------------------------
(* datetime: calendar arithmetic                                           *)

IsLeap(y) == y % 4 = 0 /\ (y % 100 # 0 \/ y % 400 = 0)

DaysInMonth(y, m) ==
    IF m = 2 THEN (IF IsLeap(y) THEN 29 ELSE 28)
    ELSE IF m \in {4, 6, 9, 11} THEN 30 ELSE 31

RECURSIVE DaysBeforeMonth(_, _)
DaysBeforeMonth(y, m) ==
    IF m = 1 THEN 0 ELSE DaysBeforeMonth(y, m - 1) + DaysInMonth(y, m - 1)

IsDate(y, m, d) == y >= 1 /\ m \in 1..12 /\ d \in 1..DaysInMonth(y, m)

\* date(y, m, d).toordinal()
Ordinal(y, m, d) ==
    LET p == y - 1
    IN p * 365 + (p \div 4) - (p \div 100) + (p \div 400)
           + DaysBeforeMonth(y, m) + d

\* date.weekday(): Monday is 0
weekday(ord) == (ord + 6) % 7

\* datetime(y, m, d): midnight of that date
datetime(y, m, d) == Timestamp(Ordinal(y, m, d), 0)

\* the calendar date of a day number, among the years the clock can show
Years == {2024}

DateOf(ord) ==
    CHOOSE dt \in [y : Years, m : 1..12, d : 1..31] :
        IsDate(dt.y, dt.m, dt.d) /\ Ordinal(dt.y, dt.m, dt.d) = ord

\* strftime("%d/%m/%Y") of a day number
strftime(ord) ==
    LET dt == DateOf(ord)
    IN <<DigitChar(dt.d \div 10), DigitChar(dt.d % 10), "/",
         DigitChar(dt.m \div 10), DigitChar(dt.m % 10), "/",
         DigitChar(dt.y \div 1000), DigitChar((dt.y \div 100) % 10),
         DigitChar((dt.y \div 10) % 10), DigitChar(dt.y % 10)>>

----------------------------------------------------------------------------
(* pd.to_datetime(value, dayfirst=True, errors='coerce')                   *)
(*                                                                         *)
(* Of the formats pandas reads, the day-first forms "D/M/Y" and            *)
(* "D/M/Y H:M" are parsed here.  A text with no year, month, day or time   *)
(* in it (a bare weekday name, a word) makes the parser fail, which        *)
(* errors='coerce' turns into NaT.                                         *)

ParseDay(w) ==
    LET f == split_on(w, "/")
    IN IF Len(f) = 3 /\ IsInt(f[1]) /\ IsInt(f[2]) /\ IsInt(f[3])
       THEN LET a == IntOf(f[1])
                b == IntOf(f[2])
                y == IntOf(f[3])
            IN IF IsDate(y, b, a) THEN Ordinal(y, b, a)      \* day first
               ELSE IF IsDate(y, a, b) THEN Ordinal(y, a, b) \* month first
               ELSE -1
       ELSE -1

ParseMinute(w) ==
    LET f == split_on(w, ":")
    IN IF Len(f) = 2 /\ IsInt(f[1]) /\ IsInt(f[2])
            /\ IntOf(f[1]) < 24 /\ IntOf(f[2]) < 60
       THEN 60 * IntOf(f[1]) + IntOf(f[2])
       ELSE -1

to_datetime(value) ==
    IF value.t # "str" THEN value
    ELSE LET w == split(value.s)
         IN IF Len(w) = 1 /\ ParseDay(w[1]) >= 0
            THEN Timestamp(ParseDay(w[1]), 0)
            ELSE IF Len(w) = 2 /\ ParseDay(w[1]) >= 0 /\ ParseMinute(w[2]) >= 0
            THEN Timestamp(ParseDay(w[1]), ParseMinute(w[2]))
            ELSE NaT

----------------------------------------------------------------------------
(* get_cleaned.py: convert_date and convert_vote_count                     *)

s_TODAY == <<"T", "O", "D", "A", "Y">>
s_YESTERDAY == <<"Y", "E", "S", "T", "E", "R", "D", "A", "Y">>
s_MONDAY == <<"M", "O", "N", "D", "A", "Y">>
s_TUESDAY == <<"T", "U", "E", "S", "D", "A", "Y">>
s_WEDNESDAY == <<"W", "E", "D", "N", "E", "S", "D", "A", "Y">>
s_THURSDAY == <<"T", "H", "U", "R", "S", "D", "A", "Y">>
s_FRIDAY == <<"F", "R", "I", "D", "A", "Y">>
s_SATURDAY == <<"S", "A", "T", "U", "R", "D", "A", "Y">>
s_SUNDAY == <<"S", "U", "N", "D", "A", "Y">>

\* convert_date(value).  The except branch is taken for no cell of the
\* model: with errors='coerce' to_datetime returns for each of them.
convert_date(value) ==
    IF value = Str(s_TODAY) THEN datetime(2024, 10, 22)
    ELSE IF value = Str(s_YESTERDAY) THEN datetime(2024, 10, 21)
    ELSE IF value = Str(s_SUNDAY) THEN datetime(2024, 10, 20)
    ELSE IF value = Str(s_FRIDAY) THEN datetime(2024, 10, 18)
    ELSE to_datetime(value)

\* int() of a word that is not a number raises ValueError
ValueError == [t |-> "ValueError", s |-> <<>>, i |-> 0]

s_votes == <<"v", "o", "t", "e", "s">>

\* convert_vote_count(value): the converted cell, or ValueError when int raises
convert_vote_count(value) ==
    IF value.t = "str" /\ Contains(value.s, s_votes)
    THEN LET w == split(value.s)[1]
         IN IF IsInt(w) THEN TallyInt(IntOf(w)) ELSE ValueError
    ELSE value

----------------------------------------------------------------------------
(* get_questions.py: parse_custom_date                                     *)

\* "Today" in x, for x that is no string, raises TypeError
TypeError == [t |-> "TypeError", s |-> <<>>, day |-> 0, minute |-> 0]

s_Today == <<"T", "o", "d", "a", "y">>
s_Yesterday == <<"Y", "e", "s", "t", "e", "r", "d", "a", "y">>
s_at == <<"a", "t">>

\* parse_custom_date(date_str), datetime.now() showing the day number now
parse_custom_date(date_str, now) ==
    IF date_str.t = "Timestamp" THEN date_str
    ELSE IF date_str.t # "str" THEN TypeError
    ELSE IF Contains(date_str.s, s_Today)
    THEN LET time_part == strip(split_last(date_str.s, s_at))
             today == strftime(now)
         IN to_datetime(Str(today \o <<" ">> \o time_part))
    ELSE IF Contains(date_str.s, s_Yesterday)
    THEN LET time_part == strip(split_last(date_str.s, s_at))
             yesterday == strftime(now - 1)
         IN to_datetime(Str(yesterday \o <<" ">> \o time_part))
    ELSE to_datetime(date_str)

----------------------------------------------------------------------------
(* get_cleaned.py: the two column conversions (lines 5-39)                 *)
(*                                                                         *)
(* A row keeps the cell it was read with in the field raw.                 *)

s_22_10_2024 == <<"2", "2", "/", "1", "0", "/", "2", "0", "2", "4">>
s_03_04_2024 == <<"0", "3", "/", "0", "4", "/", "2", "0", "2", "4">>
s_na == <<"n", "/", "a">>

WeekdayNames ==
    <<s_MONDAY, s_TUESDAY, s_WEDNESDAY, s_THURSDAY, s_FRIDAY, s_SATURDAY, s_SUNDAY>>

\* que_created_at as read: relative keywords, weekday names, day-first
\* dates, a text that is no date, a timestamp cell, an empty cell
RawDates ==
    {Str(s_TODAY), Str(s_YESTERDAY), Str(s_22_10_2024), Str(s_03_04_2024),
     Str(s_na), Timestamp(Ordinal(2024, 10, 19), 615), NaT}
        \cup {Str(WeekdayNames[i]) : i \in 1..7}

s_42_votes == <<"4", "2", " ", "v", "o", "t", "e", "s">>
s_7_votes == <<"7", " ", "v", "o", "t", "e", "s">>
s_no_votes == <<"n", "o", " ", "v", "o", "t", "e", "s">>
s_votes_3 == <<"v", "o", "t", "e", "s", ":", " ", "3">>
s_1_vote == <<"1", " ", "v", "o", "t", "e">>

\* vote_count as read
RawTallies ==
    {TallyStr(s_42_votes), TallyStr(s_7_votes), TallyStr(s_no_votes),
     TallyStr(s_votes_3), TallyStr(s_1_vote), TallyInt(5), TallyNaN}

RawDateColumns ==
    {[i \in DOMAIN c |-> [raw |-> c[i], que_created_at |-> c[i]]] :
        c \in SeqsUpTo(RawDates, MaxCells)}

RawTallyColumns ==
    {[i \in DOMAIN c |-> [raw |-> c[i], vote_count |-> c[i]]] :
        c \in SeqsUpTo(RawTallies, MaxCells)}

\* The two conversions read different columns of different tables: the
\* inputs vary one column at a time.
ConvertInputs ==
    [q : RawDateColumns, b : {<<>>}] \cup [q : {<<>>}, b : RawTallyColumns]

InitConvert ==
    /\ pc = "convert_start"
    /\ cleaned_voter = <<>>
    /\ que_ans_df = <<>>
    /\ voter_df = <<>>
    /\ correct_answers_df = <<>>
    /\ idx = 0
    /\ n = 0
    /\ insights = NoInsights

\* pd.read_excel of Que_Ans.xlsx and Voter.xlsx
ReadRaw ==
    /\ pc = "convert_start"
    /\ \E in \in ConvertInputs :
          /\ que_ans_df' = in.q
          /\ voter_df' = in.b
    /\ pc' = "convert_date"
    /\ UNCHANGED <<cleaned_voter, correct_answers_df, idx, n, insights>>

\* que_ans_df['que_created_at'] = que_ans_df['que_created_at'].apply(convert_date)
ApplyConvertDate ==
    /\ pc = "convert_date"
    /\ que_ans_df' =
          [i \in DOMAIN que_ans_df |->
              [que_ans_df[i] EXCEPT
                  !.que_created_at = convert_date(que_ans_df[i].que_created_at)]]
    /\ pc' = "convert_vote_count"
    /\ UNCHANGED <<cleaned_voter, voter_df, correct_answers_df, idx, n, insights>>

\* voter_df['vote_count'] = voter_df['vote_count'].apply(convert_vote_count):
\* an exception in one cell leaves apply, the assignment and the script
ApplyConvertVoteCount ==
    /\ pc = "convert_vote_count"
    /\ IF \E i \in DOMAIN voter_df :
              convert_vote_count(voter_df[i].vote_count) = ValueError
       THEN /\ pc' = "vote_count_raised"
            /\ UNCHANGED voter_df
       ELSE /\ pc' = "convert_done"
            /\ voter_df' =
                  [i \in DOMAIN voter_df |->
                      [voter_df[i] EXCEPT
                          !.vote_count = convert_vote_count(voter_df[i].vote_count)]]
    /\ UNCHANGED <<cleaned_voter, que_ans_df, correct_answers_df, idx, n, insights>>

NextConvert == ReadRaw \/ ApplyConvertDate \/ ApplyConvertVoteCount

SpecConvert == InitConvert /\ [][NextConvert]_vars

----------------------------------------------------------------------------
(* get_questions.py: the normalisation of voting_time (lines 6-52)         *)

s_Today_at_10_30 == <<"T", "o", "d", "a", "y", " ", "a", "t", " ", "1", "0", ":", "3", "0">>
s_Yesterday_at_09_05 == <<"Y", "e", "s", "t", "e", "r", "d", "a", "y", " ", "a", "t", " ", "0", "9", ":", "0", "5">>
s_21_10_2024_18_45 == <<"2", "1", "/", "1", "0", "/", "2", "0", "2", "4", " ", "1", "8", ":", "4", "5">>

\* voting_time as found in Cleaned_Voter.xlsx
RawVotingTimes ==
    {Str(s_Today_at_10_30), Str(s_Yesterday_at_09_05), Str(s_Today),
     Str(s_Yesterday), Str(s_21_10_2024_18_45), Str(s_na),
     Timestamp(Ordinal(2024, 10, 19), 615), NaT}

\* the days datetime.now() can show
Nows == {Ordinal(2024, 10, 22), Ordinal(2024, 10, 23), Ordinal(2024, 11, 5)}

\* datetime.now() is read once per cell, and time does not go back
Clocks(len) ==
    {c \in [1..len -> Nows] : \A i, j \in 1..len : i <= j => c[i] <= c[j]}

\* a Timedelta in minutes, or NaT
NoDelta == [na |-> TRUE, minutes |-> 0]

Timedelta(a, b) ==
    IF a.t = "Timestamp" /\ b.t = "Timestamp"
    THEN [na |-> FALSE, minutes |-> (a.day - b.day) * 1440 + a.minute - b.minute]
    ELSE NoDelta

VotingRows ==
    {[i \in DOMAIN c |-> [raw |-> c[i], voting_time |-> c[i],
                           question_text |-> 1, response_time |-> NoDelta]] :
        c \in SeqsUpTo(RawVotingTimes, MaxCells)}

CreatedRows ==
    {<<>>,
     <<[que_text |-> 1, que_created_at |-> Timestamp(Ordinal(2024, 10, 21), 600)]>>,
     <<[que_text |-> 1, que_created_at |-> Timestamp(Ordinal(2024, 10, 21), 600)],
       [que_text |-> 1, que_created_at |-> Timestamp(Ordinal(2024, 10, 20), 0)]>>}

\* que_ans_df.drop_duplicates(subset=['que_text'])
drop_duplicate_questions(que) ==
    SelectSeq([i \in DOMAIN que |-> [row |-> que[i], first |->
                  \A j \in 1..(i - 1) : que[j].que_text # que[i].que_text]],
              LAMBDA e : e.first)

\* question_text.map(que_ans_df.set_index('que_text')['que_created_at'])
created_at(que, q) ==
    LET at == {i \in DOMAIN que : que[i].row.que_text = q}
    IN IF at = {} THEN NaT
       ELSE que[CHOOSE i \in at : \A j \in at : i <= j].row.que_created_at

\* voter_df['response_time'] = voter_df['voting_time'] - ...map(...)
with_response_time(v, que) ==
    [i \in DOMAIN v |->
        [v[i] EXCEPT !.response_time =
            Timedelta(v[i].voting_time,
                      created_at(drop_duplicate_questions(que), v[i].question_text))]]

\* voter_df['voting_time'].apply(parse_custom_date), the clock read per cell
parsed_voting_time(v, clock) ==
    [i \in DOMAIN v |->
        [v[i] EXCEPT !.voting_time = parse_custom_date(v[i].voting_time, clock[i])]]

InitDates ==
    /\ pc = "gq_start"
    /\ cleaned_voter = <<>>
    /\ que_ans_df = <<>>
    /\ voter_df = <<>>
    /\ correct_answers_df = <<>>
    /\ idx = 0
    /\ n = 0
    /\ insights = NoInsights

\* pd.read_excel of the cleaned files
ReadCleaned ==
    /\ pc = "gq_start"
    /\ \E v \in VotingRows, q \in CreatedRows :
          /\ cleaned_voter' = v
          /\ voter_df' = v
          /\ que_ans_df' = q
    /\ pc' = "gq_read"
    /\ UNCHANGED <<correct_answers_df, idx, n, insights>>

\* Lines 11-17: the latency is first taken from the column as read.  When
\* the column holds a text, the subtraction works cell by cell on objects
\* and a text minus a timestamp is a TypeError; whether the script gets
\* past this line then is left open.
ResponseTimeAsRead ==
    /\ pc = "gq_read"
    /\ \/ /\ voter_df' = with_response_time(voter_df, que_ans_df)
          /\ pc' = "gq_timed"
       \/ /\ \E i \in DOMAIN voter_df : voter_df[i].voting_time.t = "str"
          /\ pc' = "subtract_raised"
          /\ UNCHANGED voter_df
    /\ UNCHANGED <<cleaned_voter, que_ans_df, correct_answers_df, idx, n, insights>>

\* Lines 44-47: apply(parse_custom_date), then the frame is written back
\* to Cleaned_Voter.xlsx
ApplyParseCustomDate ==
    /\ pc = "gq_timed"
    /\ \E clock \in Clocks(Len(voter_df)) :
          LET parsed == parsed_voting_time(voter_df, clock)
          IN IF \E i \in DOMAIN parsed : parsed[i].voting_time = TypeError
             THEN /\ pc' = "parse_raised"
                  /\ UNCHANGED <<voter_df, cleaned_voter>>
             ELSE /\ pc' = "gq_parsed"
                  /\ voter_df' = parsed
                  /\ cleaned_voter' = parsed
    /\ UNCHANGED <<que_ans_df, correct_answers_df, idx, n, insights>>

\* Line 52: the latency from the parsed column
ResponseTime ==
    /\ pc = "gq_parsed"
    /\ voter_df' = with_response_time(voter_df, que_ans_df)
    /\ pc' = "gq_done"
    /\ UNCHANGED <<cleaned_voter, que_ans_df, correct_answers_df, idx, n, insights>>

NextDates == ReadCleaned \/ ResponseTimeAsRead \/ ApplyParseCustomDate \/ ResponseTime

SpecDates == InitDates /\ [][NextDates]_vars

----------------------------------------------------------------------------
(* Properties of the normalizers                                           *)

DatesConverted == pc \in {"convert_vote_count", "convert_done", "vote_count_raised"}

VotingTimesParsed == pc \in {"gq_parsed", "gq_done"}

IsTimestampOrMarker(cell) == cell.t \in {"Timestamp", "NaT"}

(* C11: on every raw value (any text, among them 'Today' and 'Yesterday'   *)
(* with no 'at <time>' after them, a timestamp, a missing cell)            *)
(* parse_custom_date ends with a timestamp or the unparseable marker and   *)
(* never raises, so that no cell stops the script.                         *)
C11_ParseCustomDateNeverRaises ==
    /\ pc # "parse_raised"
    /\ VotingTimesParsed =>
          \A i \in DOMAIN voter_df : IsTimestampOrMarker(voter_df[i].voting_time)

\* the failing case of C11: a missing cell is handed to the substring test
C11_MissingCellRaises ==
    /\ pc = "parse_raised"
    /\ \E i \in DOMAIN voter_df : voter_df[i].raw = NaT
    /\ \A i \in DOMAIN voter_df : voter_df[i].raw.t # "str"

\* C11 for convert_date alone: every cell becomes a timestamp or the marker
C11_ConvertDateEndsWithTimestampOrMarker ==
    DatesConverted =>
        \A i \in DOMAIN que_ans_df : IsTimestampOrMarker(que_ans_df[i].que_created_at)

\* C11 for the texts alone: 'Today' and 'Yesterday' with nothing after them
\* are coerced to the marker
C11_TextsNeverRaise ==
    VotingTimesParsed =>
        \A i \in DOMAIN voter_df :
            voter_df[i].raw \in {Str(s_Today), Str(s_Yesterday)}
                => voter_df[i].voting_time = NaT

\* the reference date of convert_date
ReferenceDay == Ordinal(2024, 10, 22)

\* the latest day on or before the reference date that falls on weekday wd
MostRecent(wd) ==
    CHOOSE d \in (ReferenceDay - 6)..ReferenceDay : weekday(d) = wd

ConvertedFrom(text) ==
    {que_ans_df[i].que_created_at :
        i \in {j \in DOMAIN que_ans_df : que_ans_df[j].raw = Str(text)}}

(* C12: with the reference date 2024-10-22, a Tuesday, convert_date maps   *)
(* TODAY to that date at midnight, YESTERDAY to the day before, and each   *)
(* of the seven weekday names to midnight of the latest date on or before  *)
(* the reference date that falls on that weekday.                          *)
C12_KeywordsAndWeekdays ==
    DatesConverted =>
        /\ weekday(ReferenceDay) = 1
        /\ ConvertedFrom(s_TODAY) \subseteq {Timestamp(ReferenceDay, 0)}
        /\ ConvertedFrom(s_YESTERDAY) \subseteq {Timestamp(ReferenceDay - 1, 0)}
        /\ \A k \in 1..7 :
              ConvertedFrom(WeekdayNames[k]) \subseteq {Timestamp(MostRecent(k - 1), 0)}

\* the failing case of C12: a weekday name convert_date does not list
C12_UnlistedWeekdayIsCoerced ==
    /\ DatesConverted
    /\ NaT \in ConvertedFrom(s_MONDAY)

\* C12 for the four keywords convert_date lists
C12_ListedKeywords ==
    DatesConverted =>
        /\ ConvertedFrom(s_TODAY) \subseteq {datetime(2024, 10, 22)}
        /\ ConvertedFrom(s_YESTERDAY) \subseteq {datetime(2024, 10, 21)}
        /\ ConvertedFrom(s_SUNDAY) \subseteq {Timestamp(MostRecent(6), 0)}
        /\ ConvertedFrom(s_FRIDAY) \subseteq {Timestamp(MostRecent(4), 0)}

\* the rows as read, before any conversion
AsRead(v) ==
    [i \in DOMAIN v |->
        [v[i] EXCEPT !.voting_time = v[i].raw, !.response_time = NoDelta]]

\* what a run whose clock shows `clock` leaves in voter_df
RunAt(v, que, clock) ==
    with_response_time(parsed_voting_time(AsRead(v), clock), que)

C13_AbsoluteTimesAreFixed ==
    pc = "gq_done" =>
        \A i \in DOMAIN voter_df :
            ~(Contains(voter_df[i].raw.s, s_Today)
                  \/ Contains(voter_df[i].raw.s, s_Yesterday))
                => voter_df[i].voting_time = to_datetime(voter_df[i].raw)

\* an integer followed by a unit word that holds 'votes'
IsCountWithUnit(cell) ==
    /\ cell.t = "str"
    /\ Contains(cell.s, s_votes)
    /\ Len(split(cell.s)) = 2
    /\ IsInt(split(cell.s)[1])

(* C14: convert_vote_count stops the script on no tally value: an integer  *)
(* followed by a unit word ('42 votes') gives that integer, and every      *)
(* other value ('no votes', 'votes: 3', '1 vote', a number, an empty cell) *)
(* is returned as it is or taken as unparseable.                           *)
C14_VoteCountNeverRaises ==
    /\ pc # "vote_count_raised"
    /\ pc = "convert_done" =>
          \A i \in DOMAIN voter_df :
              IF IsCountWithUnit(voter_df[i].raw)
              THEN voter_df[i].vote_count
                       = TallyInt(IntOf(split(voter_df[i].raw.s)[1]))
              ELSE voter_df[i].vote_count \in {voter_df[i].raw, TallyNaN}

\* the failing case of C14: 'votes' is in the text and no integer leads it
C14_WordBeforeVotesRaises ==
    /\ pc = "vote_count_raised"
    /\ \E i \in DOMAIN voter_df : voter_df[i].raw = TallyStr(s_no_votes)

\* C14 for the runs that end: the values are as stated
C14_ConvertedAsStated ==
    pc = "convert_done" =>
        \A i \in DOMAIN voter_df :
            IF IsCountWithUnit(voter_df[i].raw)
            THEN voter_df[i].vote_count
                     = TallyInt(IntOf(split(voter_df[i].raw.s)[1]))
            ELSE voter_df[i].vote_count = voter_df[i].raw

====
